---- MODULE Spec2Model ----
(***************************************************************************)
(* Model of the lcd1602 driver: a HD44780 character LCD behind a one-byte  *)
(* I2C GPIO expander.  Every public method of Dev is one action; the bytes *)
(* it hands to the bus (mmr.Dev8.WriteUint8(0, b)) are recorded, in order, *)
(* in `bus`, each with the outcome the bus reported for it.                *)
(***************************************************************************)
EXTENDS Integers, Sequences, FiniteSets, TLC

VARIABLES
    made,             \* a *Dev has been returned by NewI2C
    displayEnable,    \* Dev.displayEnable
    backlight_state,  \* Dev.backlight_state
    cursor,           \* Dev.cursor
    blink,            \* Dev.blink
    displayShift,     \* Dev.displayShift
    shiftRight,       \* Dev.shiftRight
    opts,             \* Dev.opts (copy of the Opts given to NewI2C)
    addr,             \* address of the i2c.Dev behind Dev.c
    bus,              \* bus writes issued by the last call, in order
    call,             \* the last call: its name, arguments, bus fault
    assignedAfter,    \* bus writes the last call had issued when it assigned
                      \* a Dev flag (-1: it assigned none)
    ret               \* what the last call returned

vars == <<made, displayEnable, backlight_state, cursor, blink, displayShift,
          shiftRight, opts, addr, bus, call, assignedAfter, ret>>

flags == <<displayEnable, backlight_state, cursor, blink, displayShift, shiftRight>>

----------------------------------------------------------------------------
(* Bounds of the model *)

\* longest buffer handed to Write
MaxBufLen == 2
\* the bus may reject the write number 1..MaxFailAt of a call (0: none)
MaxFailAt == 2
\* largest line number / line count tried
MaxLine == 5

----------------------------------------------------------------------------
(* Constants of the driver *)

CMD_Clear_Display == 1
CMD_Return_Home == 2
CMD_Entry_Mode == 4
CMD_Display_Control == 8
CMD_Cursor_Display_Shift == 16
CMD_Function_Set == 32
CMD_DDRAM_Set == 128

OPT_Increment == 2
OPT_Cursor_Shift == 1
OPT_Enable_Display == 4
OPT_Enable_Cursor == 2
OPT_Enable_Blink == 1
OPT_Display_Shift == 8
OPT_Shift_Right == 4
OPT_2_Lines == 8

EN == 2
WR == 1
RS == 0
D4 == 4
D5 == 5
D6 == 6
D7 == 7
BACKLIGHT == 3

DefaultOpts == [I2CAddr |-> 39, Lines |-> 2, Cols |-> 16]

----------------------------------------------------------------------------
(* Go's byte arithmetic: uint8, wrapping modulo 256 *)

Byte == 0..255

Bit(b, i) == (b \div (2^i)) % 2

RECURSIVE OrBits(_, _, _)
OrBits(a, b, i) ==
    IF i > 7 THEN 0
    ELSE (IF Bit(a, i) = 1 \/ Bit(b, i) = 1 THEN 2^i ELSE 0) + OrBits(a, b, i + 1)

RECURSIVE AndBits(_, _, _)
AndBits(a, b, i) ==
    IF i > 7 THEN 0
    ELSE (IF Bit(a, i) = 1 /\ Bit(b, i) = 1 THEN 2^i ELSE 0) + AndBits(a, b, i + 1)

RECURSIVE XorBits(_, _, _)
XorBits(a, b, i) ==
    IF i > 7 THEN 0
    ELSE (IF Bit(a, i) # Bit(b, i) THEN 2^i ELSE 0) + XorBits(a, b, i + 1)

\* the operators | & ^ on bytes, tabulated once from their bitwise definition
OrTable == [a \in Byte |-> [b \in Byte |-> OrBits(a, b, 0)]]
AndTable == [a \in Byte |-> [b \in Byte |-> AndBits(a, b, 0)]]
XorTable == [a \in Byte |-> [b \in Byte |-> XorBits(a, b, 0)]]

\* a | b, a & b, a ^ b, a << n, a >> n, a + b on bytes
BitOr(a, b) == OrTable[a][b]
BitAnd(a, b) == AndTable[a][b]
BitXor(a, b) == XorTable[a][b]
Shl(a, n) == (a * (2^n)) % 256
Shr(a, n) == a \div (2^n)
AddByte(a, b) == (a + b) % 256

----------------------------------------------------------------------------
(* Bit packer *)

\* pinInterpret whose clearing mask is not inverted
pinInterpret_MaskNotInverted(pin, data, value) ==
    IF value
    THEN BitOr(data, Shl(1, pin))
    ELSE BitAnd(data, Shl(1, pin))

pinInterpret(pin, data, value) ==
    IF value
    THEN BitOr(data, Shl(1, pin))
    ELSE BitAnd(data, BitXor(Shl(1, pin), 255))

----------------------------------------------------------------------------
(* Nibble transmitter.  The operators give the bytes handed to            *)
(* WriteUint8, in order; `bl` is Dev.backlight_state at the time.         *)

\* enable without the closing idle write
enable_NoIdle(bl, data) ==
    LET d == IF bl THEN pinInterpret(BACKLIGHT, data, TRUE)
                   ELSE pinInterpret(BACKLIGHT, data, FALSE)
    IN  <<d, pinInterpret(EN, d, TRUE)>>

\* enable that sends the byte as given, the backlight bit not re-applied
enable_NoBacklight(bl, data) ==
    <<data, pinInterpret(EN, data, TRUE), data>>

\* enable that leaves EN set in its last write
enable_HoldsEnable(bl, data) ==
    LET d == IF bl THEN pinInterpret(BACKLIGHT, data, TRUE)
                   ELSE pinInterpret(BACKLIGHT, data, FALSE)
    IN  <<d, pinInterpret(EN, d, TRUE), pinInterpret(EN, d, TRUE)>>

enable(bl, data) ==
    LET d == IF bl THEN pinInterpret(BACKLIGHT, data, TRUE)
                   ELSE pinInterpret(BACKLIGHT, data, FALSE)
    IN  <<d, pinInterpret(EN, d, TRUE), d>>

\* the nibble byte with register-select never set
nibbleByte_NoRS(nibble, isCommand) ==
    LET d4 == pinInterpret(D4, 0, BitAnd(nibble, 1) = 1)
        d5 == pinInterpret(D5, d4, BitAnd(Shr(nibble, 1), 1) = 1)
        d6 == pinInterpret(D6, d5, BitAnd(Shr(nibble, 2), 1) = 1)
    IN  pinInterpret(D7, d6, BitAnd(Shr(nibble, 3), 1) = 1)

\* the expander byte of one nibble: D4..D7 from the nibble, RS when data
nibbleByte(nibble, isCommand) ==
    LET d4 == pinInterpret(D4, 0, BitAnd(nibble, 1) = 1)
        d5 == pinInterpret(D5, d4, BitAnd(Shr(nibble, 1), 1) = 1)
        d6 == pinInterpret(D6, d5, BitAnd(Shr(nibble, 2), 1) = 1)
        d7 == pinInterpret(D7, d6, BitAnd(Shr(nibble, 3), 1) = 1)
    IN  IF ~isCommand THEN pinInterpret(RS, d7, TRUE) ELSE d7

\* write sending the low nibble first
write_LowNibbleFirst(bl, data, isCommand) ==
    LET hi_nibble == Shr(data, 4)
        low_nibble == BitAnd(data, 15)
    IN  enable(bl, nibbleByte(low_nibble, isCommand))
        \o enable(bl, nibbleByte(hi_nibble, isCommand))

write(bl, data, isCommand) ==
    LET hi_nibble == Shr(data, 4)
        low_nibble == BitAnd(data, 15)
    IN  enable(bl, nibbleByte(hi_nibble, isCommand))
        \o enable(bl, nibbleByte(low_nibble, isCommand))

command(bl, data) == write(bl, data, TRUE)

----------------------------------------------------------------------------
(* Display state machine: flags -> command byte *)

displaySwitchOption(de, cu, bk) ==
    LET o0 == CMD_Display_Control
        o1 == IF de THEN BitOr(o0, OPT_Enable_Display) ELSE o0
        o2 == IF cu THEN BitOr(o1, OPT_Enable_Cursor) ELSE o1
    IN  IF bk THEN BitOr(o2, OPT_Enable_Blink) ELSE o2

writeDisplaySwitch(bl, de, cu, bk) == command(bl, displaySwitchOption(de, cu, bk))

\* entry mode with the increment test inverted
entryModeOption_IncrementOnRight(sr, ds) ==
    LET o0 == CMD_Entry_Mode
        o1 == IF sr THEN BitOr(o0, OPT_Increment) ELSE o0
    IN  IF ds THEN BitOr(o1, OPT_Cursor_Shift) ELSE o1

\* entry mode that always sets the shift bit
entryModeOption_AlwaysShift(sr, ds) ==
    LET o0 == CMD_Entry_Mode
        o1 == IF ~sr THEN BitOr(o0, OPT_Increment) ELSE o0
    IN  BitOr(o1, OPT_Cursor_Shift)

entryModeOption(sr, ds) ==
    LET o0 == CMD_Entry_Mode
        o1 == IF ~sr THEN BitOr(o0, OPT_Increment) ELSE o0
    IN  IF ds THEN BitOr(o1, OPT_Cursor_Shift) ELSE o1

writeEntryMode(bl, sr, ds) == command(bl, entryModeOption(sr, ds))

----------------------------------------------------------------------------
(* The bus adapter: write number failAt of the call is rejected.  The      *)
(* driver discards what WriteUint8 returns, so the outcome is only        *)
(* recorded.                                                               *)

WriteUint8(bytes, failAt) ==
    [i \in 1..Len(bytes) |-> [val |-> bytes[i], ok |-> (i # failAt)]]

Faults == 0..MaxFailAt

Ret(e, v) == [err |-> e, val |-> v]
Call(name, args, failAt) == [op |-> name, args |-> args, failAt |-> failAt]

----------------------------------------------------------------------------
(* Options *)

\* i2cAddr taking 0x28 for a legal address
i2cAddr_Accepts28(a) ==
    CASE a = 0 -> [addr |-> 39, err |-> "nil"]
      [] a \in 32..40 -> [addr |-> a, err |-> "nil"]
      [] OTHER -> [addr |-> 0, err |-> "given address not supported by device"]

i2cAddr(a) ==
    CASE a = 0 -> [addr |-> 39, err |-> "nil"]
      [] a \in 32..39 -> [addr |-> a, err |-> "nil"]
      [] OTHER -> [addr |-> 0, err |-> "given address not supported by device"]

----------------------------------------------------------------------------
(* Address mapper *)

\* the range check without its column test
positionError_NoCols(line, pos, o) ==
    IF line > o.Lines THEN "device does not support lines" ELSE "nil"

\* "nil" when SetPosition accepts the position, else the error it returns
positionError(line, pos, o) ==
    IF line > o.Lines THEN "device does not support lines"
    ELSE IF pos > o.Cols THEN "device does not support cols"
    ELSE "nil"

\* the mapping with line 3 at 0x14, as on 20-column modules
ddramAddress_Line3At20(line, pos) ==
    CASE line = 1 -> pos
      [] line = 2 -> AddByte(64, pos)
      [] line = 3 -> AddByte(20, pos)
      [] line = 4 -> AddByte(80, pos)
      [] OTHER -> 0

ddramAddress(line, pos) ==
    CASE line = 1 -> pos
      [] line = 2 -> AddByte(64, pos)
      [] line = 3 -> AddByte(16, pos)
      [] line = 4 -> AddByte(80, pos)
      [] OTHER -> 0

----------------------------------------------------------------------------
(* Initialization sequence *)

\* makeDev sending entry mode before display control
makeDev_EntryModeFirst(o) ==
    LET d == [displayEnable |-> TRUE, cursor |-> TRUE, blink |-> TRUE,
              displayShift |-> FALSE, shiftRight |-> FALSE,
              backlight_state |-> FALSE, opts |-> o]
        bl == d.backlight_state
        data8 == pinInterpret(D5, pinInterpret(D4, 0, TRUE), TRUE)
        data4 == pinInterpret(D4, data8, FALSE)
    IN  [dev |-> d,
         writes |-> enable(bl, data8) \o enable(bl, data8) \o enable(bl, data8)
                    \o enable(bl, data4)
                    \o command(bl, BitOr(CMD_Function_Set, OPT_2_Lines))
                    \o writeEntryMode(bl, d.shiftRight, d.displayShift)
                    \o writeDisplaySwitch(bl, d.displayEnable, d.cursor, d.blink)
                    \o command(bl, CMD_Clear_Display)]

\* the Dev that makeDev builds and the bus writes it issues while doing so
makeDev(o) ==
    LET d == [displayEnable |-> TRUE, cursor |-> TRUE, blink |-> TRUE,
              displayShift |-> FALSE, shiftRight |-> FALSE,
              backlight_state |-> FALSE, opts |-> o]
        bl == d.backlight_state
        data8 == pinInterpret(D5, pinInterpret(D4, 0, TRUE), TRUE)
        data4 == pinInterpret(D4, data8, FALSE)
    IN  [dev |-> d,
         writes |-> enable(bl, data8) \o enable(bl, data8) \o enable(bl, data8)
                    \o enable(bl, data4)
                    \o command(bl, BitOr(CMD_Function_Set, OPT_2_Lines))
                    \o writeDisplaySwitch(bl, d.displayEnable, d.cursor, d.blink)
                    \o writeEntryMode(bl, d.shiftRight, d.displayShift)
                    \o command(bl, CMD_Clear_Display)]

----------------------------------------------------------------------------
(* Inputs tried *)

AddrInputs == {0, 39, 40}
GeometryInputs == {<<2, 16>>, <<4, 20>>}
OptsInputs ==
    {[I2CAddr |-> a, Lines |-> g[1], Cols |-> g[2]] :
        a \in AddrInputs, g \in GeometryInputs}
CharInputs == {0, 65, 165, 255}
BufChars == {65, 165}
BufInputs == UNION {[1..n -> BufChars] : n \in 0..MaxBufLen}
LineInputs == 0..MaxLine
PosInputs(o) == {0, 1, o.Cols - 1, o.Cols, o.Cols + 1} \cap Byte

----------------------------------------------------------------------------
(* State before any device is constructed *)

NoOpts == [I2CAddr |-> 0, Lines |-> 0, Cols |-> 0]

Init ==
    /\ made = FALSE
    /\ displayEnable = FALSE
    /\ backlight_state = FALSE
    /\ cursor = FALSE
    /\ blink = FALSE
    /\ displayShift = FALSE
    /\ shiftRight = FALSE
    /\ opts = NoOpts
    /\ addr = 0
    /\ bus = <<>>
    /\ call = Call("none", <<>>, 0)
    /\ assignedAfter = -1
    /\ ret = Ret("none", 0)

\* what every call records: its bus writes, itself, its return value
Returns(name, args, failAt, bytes, r) ==
    /\ bus' = WriteUint8(bytes, failAt)
    /\ call' = Call(name, args, failAt)
    /\ ret' = r

----------------------------------------------------------------------------
(* Construction *)

NewI2C(isNil, given, failAt) ==
    LET o == IF isNil THEN DefaultOpts ELSE given
        a == i2cAddr(o.I2CAddr)
        m == makeDev(o)
    IN  IF a.err # "nil"
        THEN /\ made' = FALSE
             /\ UNCHANGED <<displayEnable, backlight_state, cursor, blink,
                            displayShift, shiftRight, opts, addr>>
             /\ assignedAfter' = -1
             /\ Returns("NewI2C", <<isNil, given>>, failAt, <<>>, Ret(a.err, 0))
        ELSE /\ made' = TRUE
             /\ displayEnable' = m.dev.displayEnable
             /\ backlight_state' = m.dev.backlight_state
             /\ cursor' = m.dev.cursor
             /\ blink' = m.dev.blink
             /\ displayShift' = m.dev.displayShift
             /\ shiftRight' = m.dev.shiftRight
             /\ opts' = m.dev.opts
             /\ addr' = a.addr
             /\ assignedAfter' = 0
             /\ Returns("NewI2C", <<isNil, given>>, failAt, m.writes, Ret("nil", 0))

----------------------------------------------------------------------------
(* Public operations of a constructed device *)

Halt(failAt) ==
    /\ made
    /\ backlight_state' = FALSE
    /\ assignedAfter' = Len(command(backlight_state, CMD_Clear_Display)) + 1
    /\ UNCHANGED <<made, displayEnable, cursor, blink, displayShift, shiftRight,
                   opts, addr>>
    /\ Returns("Halt", <<>>, failAt,
               command(backlight_state, CMD_Clear_Display)
                   \o <<pinInterpret(BACKLIGHT, 0, FALSE)>>,
               Ret("nil", 0))

\* SetBacklight that clocks its byte through an enable pulse
SetBacklight_Pulsed(on, failAt) ==
    /\ made
    /\ backlight_state' = on
    /\ assignedAfter' = 3
    /\ UNCHANGED <<made, displayEnable, cursor, blink, displayShift, shiftRight,
                   opts, addr>>
    /\ Returns("SetBacklight", <<on>>, failAt, enable(on, 0), Ret("void", 0))

SetBacklight(on, failAt) ==
    /\ made
    /\ backlight_state' = on
    /\ assignedAfter' = 1
    /\ UNCHANGED <<made, displayEnable, cursor, blink, displayShift, shiftRight,
                   opts, addr>>
    /\ Returns("SetBacklight", <<on>>, failAt,
               <<pinInterpret(BACKLIGHT, 0, on)>>, Ret("void", 0))

Clear(failAt) ==
    /\ made
    /\ UNCHANGED <<made, displayEnable, backlight_state, cursor, blink,
                   displayShift, shiftRight, opts, addr>>
    /\ assignedAfter' = -1
    /\ Returns("Clear", <<>>, failAt,
               command(backlight_state, CMD_Clear_Display), Ret("void", 0))

Home(failAt) ==
    /\ made
    /\ UNCHANGED <<made, displayEnable, backlight_state, cursor, blink,
                   displayShift, shiftRight, opts, addr>>
    /\ assignedAfter' = -1
    /\ Returns("Home", <<>>, failAt,
               command(backlight_state, CMD_Return_Home), Ret("void", 0))

SetPosition(line, pos, failAt) ==
    /\ made
    /\ UNCHANGED <<made, displayEnable, backlight_state, cursor, blink,
                   displayShift, shiftRight, opts, addr>>
    /\ assignedAfter' = -1
    /\ LET e == positionError(line, pos, opts)
       IN  IF e # "nil"
           THEN Returns("SetPosition", <<line, pos>>, failAt, <<>>, Ret(e, 0))
           ELSE Returns("SetPosition", <<line, pos>>, failAt,
                        command(backlight_state,
                                AddByte(CMD_DDRAM_Set, ddramAddress(line, pos))),
                        Ret("nil", 0))

RECURSIVE writeEach(_, _)
writeEach(bl, buf) ==
    IF buf = <<>> THEN <<>>
    ELSE write(bl, Head(buf), FALSE) \o writeEach(bl, Tail(buf))

Write(buf, failAt) ==
    /\ made
    /\ UNCHANGED <<made, displayEnable, backlight_state, cursor, blink,
                   displayShift, shiftRight, opts, addr>>
    /\ assignedAfter' = -1
    /\ Returns("Write", <<buf>>, failAt,
               writeEach(backlight_state, buf), Ret("nil", Len(buf)))

\* the cursor shift option without its direction bit
CursorShiftOption_IgnoresRight(right) == CMD_Cursor_Display_Shift

CursorShiftOption(right) ==
    IF right THEN BitOr(CMD_Cursor_Display_Shift, OPT_Shift_Right)
    ELSE CMD_Cursor_Display_Shift

DisplayShiftOption(right) ==
    LET o0 == BitOr(CMD_Cursor_Display_Shift, OPT_Display_Shift)
    IN  IF right THEN BitOr(o0, OPT_Shift_Right) ELSE o0

WriteChar(char, failAt) ==
    /\ made
    /\ UNCHANGED <<made, displayEnable, backlight_state, cursor, blink,
                   displayShift, shiftRight, opts, addr>>
    /\ assignedAfter' = -1
    /\ Returns("WriteChar", <<char>>, failAt,
               write(backlight_state, char, FALSE)
                   \o command(backlight_state, CursorShiftOption(FALSE)),
               Ret("nil", 0))

Right ==
    /\ made
    /\ UNCHANGED <<made, displayEnable, backlight_state, cursor, blink,
                   displayShift, shiftRight, opts, addr>>
    /\ assignedAfter' = -1
    /\ Returns("Right", <<>>, 0, <<>>, Ret("nil", opts.Cols))

SetDisplayShift(value, failAt) ==
    /\ made
    /\ displayShift' = value
    /\ assignedAfter' = 0
    /\ UNCHANGED <<made, displayEnable, backlight_state, cursor, blink,
                   shiftRight, opts, addr>>
    /\ Returns("SetDisplayShift", <<value>>, failAt,
               writeEntryMode(backlight_state, shiftRight, value), Ret("void", 0))

SetShiftRight(value, failAt) ==
    /\ made
    /\ shiftRight' = value
    /\ assignedAfter' = 0
    /\ UNCHANGED <<made, displayEnable, backlight_state, cursor, blink,
                   displayShift, opts, addr>>
    /\ Returns("SetShiftRight", <<value>>, failAt,
               writeEntryMode(backlight_state, value, displayShift), Ret("void", 0))

DisplayShift(right, failAt) ==
    /\ made
    /\ UNCHANGED <<made, displayEnable, backlight_state, cursor, blink,
                   displayShift, shiftRight, opts, addr>>
    /\ assignedAfter' = -1
    /\ Returns("DisplayShift", <<right>>, failAt,
               command(backlight_state, DisplayShiftOption(right)), Ret("void", 0))

CursorShift(right, failAt) ==
    /\ made
    /\ UNCHANGED <<made, displayEnable, backlight_state, cursor, blink,
                   displayShift, shiftRight, opts, addr>>
    /\ assignedAfter' = -1
    /\ Returns("CursorShift", <<right>>, failAt,
               command(backlight_state, CursorShiftOption(right)), Ret("void", 0))

WriteCell(char, failAt) ==
    /\ made
    /\ UNCHANGED <<made, displayEnable, backlight_state, cursor, blink,
                   displayShift, shiftRight, opts, addr>>
    /\ assignedAfter' = -1
    /\ Returns("WriteCell", <<char>>, failAt,
               write(backlight_state, BitOr(64, char), FALSE), Ret("void", 0))

----------------------------------------------------------------------------
(* The driver in use: one device is constructed, then its methods are     *)
(* called in any order.                                                   *)

Construct ==
    /\ ~made
    /\ \E f \in Faults :
          \/ NewI2C(TRUE, DefaultOpts, f)
          \/ \E o \in OptsInputs : NewI2C(FALSE, o, f)

Next ==
    \/ Construct
    \/ \E f \in Faults : Halt(f)
    \/ \E on \in BOOLEAN, f \in Faults : SetBacklight(on, f)
    \/ \E f \in Faults : Clear(f)
    \/ \E f \in Faults : Home(f)
    \/ \E line \in LineInputs, pos \in PosInputs(opts), f \in Faults :
          SetPosition(line, pos, f)
    \/ \E buf \in BufInputs, f \in Faults : Write(buf, f)
    \/ \E c \in CharInputs, f \in Faults : WriteChar(c, f)
    \/ Right
    \/ \E v \in BOOLEAN, f \in Faults : SetDisplayShift(v, f)
    \/ \E v \in BOOLEAN, f \in Faults : SetShiftRight(v, f)
    \/ \E r \in BOOLEAN, f \in Faults : DisplayShift(r, f)
    \/ \E r \in BOOLEAN, f \in Faults : CursorShift(r, f)
    \/ \E c \in CharInputs, f \in Faults : WriteCell(c, f)

Spec == Init /\ [][Next]_vars

----------------------------------------------------------------------------
(* The nibble transmitter on its own: Dev.write applied once, to every    *)
(* byte in both modes, on a device whose backlight was just set either    *)
(* way.                                                                    *)

Transmit(data, isCommand, failAt) ==
    /\ made
    /\ UNCHANGED <<made, displayEnable, backlight_state, cursor, blink,
                   displayShift, shiftRight, opts, addr>>
    /\ assignedAfter' = -1
    /\ Returns("write", <<data, isCommand>>, failAt,
               write(backlight_state, data, isCommand), Ret("void", 0))

\* the device NewI2C returns for `o` (no bus fault), before any other call
Constructed(o) ==
    LET m == makeDev(o)
    IN  /\ made = TRUE
        /\ displayEnable = m.dev.displayEnable
        /\ backlight_state = m.dev.backlight_state
        /\ cursor = m.dev.cursor
        /\ blink = m.dev.blink
        /\ displayShift = m.dev.displayShift
        /\ shiftRight = m.dev.shiftRight
        /\ opts = m.dev.opts
        /\ addr = i2cAddr(o.I2CAddr).addr
        /\ bus = WriteUint8(m.writes, 0)
        /\ call = Call("NewI2C", <<FALSE, o>>, 0)
        /\ assignedAfter = 0
        /\ ret = Ret("nil", 0)

InitWrite ==
    \E on \in BOOLEAN :
        LET m == makeDev(DefaultOpts)
        IN  /\ made = TRUE
            /\ displayEnable = m.dev.displayEnable
            /\ backlight_state = on
            /\ cursor = m.dev.cursor
            /\ blink = m.dev.blink
            /\ displayShift = m.dev.displayShift
            /\ shiftRight = m.dev.shiftRight
            /\ opts = m.dev.opts
            /\ addr = i2cAddr(DefaultOpts.I2CAddr).addr
            /\ bus = WriteUint8(<<pinInterpret(BACKLIGHT, 0, on)>>, 0)
            /\ call = Call("SetBacklight", <<on>>, 0)
            /\ assignedAfter = 1
            /\ ret = Ret("void", 0)

NextWrite ==
    /\ call.op = "SetBacklight"
    /\ \E data \in Byte, isCommand \in BOOLEAN, f \in Faults :
          Transmit(data, isCommand, f)

SpecWrite == InitWrite /\ [][NextWrite]_vars

----------------------------------------------------------------------------
(* The address mapper on its own: SetPosition applied once, to every      *)
(* column a byte can hold, on freshly constructed devices of several      *)
(* geometries.                                                             *)

ColsInputs == {16, 20, 40, 255}

InitPos ==
    \E l \in 1..MaxLine, c \in ColsInputs :
        Constructed([I2CAddr |-> 39, Lines |-> l, Cols |-> c])

NextPos ==
    /\ call.op = "NewI2C"
    /\ \E line \in LineInputs, pos \in Byte, f \in Faults :
          SetPosition(line, pos, f)

SpecPos == InitPos /\ [][NextPos]_vars

----------------------------------------------------------------------------
(* Address validation on its own: the first NewI2C, for every uint16      *)
(* address.                                                                *)

MaxUint16 == 65535

NextAddr ==
    /\ call.op = "none"
    /\ \E f \in Faults :
          \/ NewI2C(TRUE, DefaultOpts, f)
          \/ \E a \in 0..MaxUint16 :
                NewI2C(FALSE, [I2CAddr |-> a, Lines |-> 2, Cols |-> 16], f)

SpecAddr == Init /\ [][NextAddr]_vars

----------------------------------------------------------------------------
(* What the controller sees of a sequence of bus writes *)

Vals(b) == [i \in 1..Len(b) |-> b[i].val]

\* writes i, i+1, i+2 of b are one enable pulse: idle, EN high, idle
IsPulse(b, i) ==
    /\ i + 2 <= Len(b)
    /\ Bit(b[i].val, 2) = 0
    /\ b[i + 1].val = b[i].val + 4
    /\ b[i + 2].val = b[i].val

\* b is pulses only, one per nibble
AllPulses(b) ==
    /\ Len(b) % 3 = 0
    /\ \A k \in 0..((Len(b) \div 3) - 1) : IsPulse(b, 3 * k + 1)

\* the nibble (D7..D4) that pulse number k of b presents
NibbleOf(b, k) == b[3 * k - 2].val \div 16

\* the byte latched from pulses k (high nibble) and k+1 (low nibble)
LatchedByte(b, k) == 16 * NibbleOf(b, k) + NibbleOf(b, k + 1)

RSClear(b) == \A i \in 1..Len(b) : Bit(b[i].val, 0) = 0

Failed(b) == {i \in 1..Len(b) : ~b[i].ok}

Base(line) == CASE line = 1 -> 0 [] line = 2 -> 64 [] line = 3 -> 16 [] line = 4 -> 80

----------------------------------------------------------------------------
(* Claims *)

\* C1: transmitting one byte, command or data, issues exactly six bus
\* writes: the high nibble idle / EN set / idle, then the low nibble
\* idle / EN set / idle.
C1_TwoPulsesPerByte ==
    call.op = "write" =>
        LET data == call.args[1]
            h == bus[1].val
            l == bus[4].val
        IN  /\ Len(bus) = 6
            /\ h \div 16 = data \div 16
            /\ l \div 16 = data % 16
            /\ Bit(h, 2) = 0
            /\ Bit(l, 2) = 0
            /\ Vals(bus) = <<h, h + 4, h, l, l + 4, l>>

\* C1 witness: 'A' (0x41) sent as data with the backlight on
C1_Witness ==
    /\ call.op = "write"
    /\ call.args = <<65, FALSE>>
    /\ backlight_state
    /\ Vals(bus) = <<73, 77, 73, 25, 29, 25>>

\* C2: from SetBacklight(true) on, and until SetBacklight(false) or Halt,
\* every byte written to the bus has the backlight bit (bit 3) set, the
\* write of SetBacklight(true) included, and the flag stays true.
C2_BacklightKept ==
    [][ LET turnsOn == call'.op = "SetBacklight" /\ call'.args[1]
            turnsOff == \/ call'.op = "Halt"
                        \/ call'.op = "NewI2C"
                        \/ (call'.op = "SetBacklight" /\ ~call'.args[1])
        IN  (turnsOn \/ (backlight_state /\ ~turnsOff)) =>
                /\ backlight_state'
                /\ \A i \in 1..Len(bus') : Bit(bus'[i].val, 3) = 1
      ]_vars

\* C2 witness: two characters written while the backlight is on
C2_Witness ==
    /\ call.op = "Write"
    /\ backlight_state
    /\ Len(bus) = 12
    /\ \A i \in 1..Len(bus) : Bit(bus[i].val, 3) = 1

\* C3: the device construction returns has display, cursor and blink
\* enabled, no display shift, no shift right, and the backlight flag true.
C3_InitialState ==
    (call.op = "NewI2C" /\ made) =>
        /\ displayEnable
        /\ cursor
        /\ blink
        /\ ~displayShift
        /\ ~shiftRight
        /\ backlight_state

\* C4: a bus write that fails is the last one its call issues, and the
\* call reports the failure to its caller.
C4_FailureStopsAndPropagates ==
    \A i \in Failed(bus) :
        /\ i = Len(bus)
        /\ ret.err \notin {"nil", "void"}

\* C5: construction returns a device only when every initialization write
\* succeeded; otherwise it returns an error.
C5_ConstructionFailsOnBusFault ==
    (call.op = "NewI2C" /\ Failed(bus) # {}) =>
        /\ ~made
        /\ ret.err # "nil"

\* C6: construction issues exactly: three pulses of the nibble 0x3, one
\* of the nibble 0x2, then the commands 0x28, display control, entry mode
\* and clear display (0x01), all with register-select clear, clear
\* display last.
C6_InitSequence ==
    (call.op = "NewI2C" /\ made) =>
        /\ Len(bus) = 36
        /\ AllPulses(bus)
        /\ RSClear(bus)
        /\ \A k \in 1..3 : bus[3 * k - 2].val = 48
        /\ bus[10].val = 32
        /\ LatchedByte(bus, 5) = 40
        /\ LatchedByte(bus, 7) =
              8 + (IF displayEnable THEN 4 ELSE 0) + (IF cursor THEN 2 ELSE 0)
                + (IF blink THEN 1 ELSE 0)
        /\ LatchedByte(bus, 9) =
              4 + (IF shiftRight THEN 0 ELSE 2) + (IF displayShift THEN 1 ELSE 0)
        /\ LatchedByte(bus, 11) = 1

\* C6 witness: a completed construction whose last pulse carries the low
\* nibble of clear display
C6_Witness ==
    /\ call.op = "NewI2C"
    /\ made
    /\ Len(bus) = 36
    /\ LatchedByte(bus, 7) = 15
    /\ LatchedByte(bus, 9) = 6
    /\ Vals(SubSeq(bus, 34, 36)) = <<16, 20, 16>>

\* C7 as stated: for 1 <= line <= Lines <= 4 and 0 <= col <= Cols-1,
\* SetPosition succeeds and transmits exactly one command byte, equal to
\* 0x80 + base[line] + col.
C7_AddressExact ==
    (/\ call.op = "SetPosition"
     /\ opts.Lines <= 4
     /\ call.args[1] \in 1..opts.Lines
     /\ call.args[2] \in 0..(opts.Cols - 1)) =>
        /\ ret.err = "nil"
        /\ Len(bus) = 6
        /\ AllPulses(bus)
        /\ RSClear(bus)
        /\ LatchedByte(bus, 1) = 128 + Base(call.args[1]) + call.args[2]

\* C7 amended: ... equal to (0x80 + base[line] + col) mod 256, which is
\* 0x80 + base[line] + col whenever that sum fits a byte.
C7_AddressModulo ==
    (/\ call.op = "SetPosition"
     /\ opts.Lines <= 4
     /\ call.args[1] \in 1..opts.Lines
     /\ call.args[2] \in 0..(opts.Cols - 1)) =>
        /\ ret.err = "nil"
        /\ Len(bus) = 6
        /\ AllPulses(bus)
        /\ RSClear(bus)
        /\ LatchedByte(bus, 1) = (128 + Base(call.args[1]) + call.args[2]) % 256

\* C7 witness: line 3, column 19 of a 4x20 display: 0x80 + 0x10 + 19
C7_Witness ==
    /\ call.op = "SetPosition"
    /\ opts.Lines = 4
    /\ opts.Cols = 20
    /\ call.args = <<3, 19>>
    /\ ret.err = "nil"
    /\ LatchedByte(bus, 1) = 163

\* C8: SetPosition with line > Lines or col > Cols returns an error,
\* issues no bus write and changes no flag.
C8_OutOfRangeRejected ==
    [][ (/\ call'.op = "SetPosition"
         /\ (call'.args[1] > opts.Lines \/ call'.args[2] > opts.Cols)) =>
            /\ ret'.err \notin {"nil", "void"}
            /\ bus' = <<>>
            /\ flags' = flags
            /\ opts' = opts
      ]_vars

\* C8 witness: a column beyond Cols on a valid line was refused
C8_Witness ==
    /\ call.op = "SetPosition"
    /\ call.args[1] \in 1..opts.Lines
    /\ call.args[2] > opts.Cols
    /\ ret.err = "device does not support cols"
    /\ bus = <<>>

\* C9: SetPosition outside line in 1..Lines, col in 0..Cols-1 returns an
\* error and transmits nothing.
C9_DomainEnforced ==
    (/\ call.op = "SetPosition"
     /\ ~(call.args[1] \in 1..opts.Lines /\ call.args[2] \in 0..(opts.Cols - 1))) =>
        /\ ret.err \notin {"nil", "void"}
        /\ bus = <<>>

\* C10: NewI2C on address 0 uses 0x27, on 0x20..0x27 the address itself,
\* and on any other address fails with the invalid-address error,
\* returning no device and writing nothing to the bus.
C10_AddressValidation ==
    (call.op = "NewI2C" /\ ~call.args[1]) =>
        LET a == call.args[2].I2CAddr
        IN  /\ a = 0 => (made /\ addr = 39 /\ ret.err = "nil")
            /\ a \in 32..39 => (made /\ addr = a /\ ret.err = "nil")
            /\ a \notin ({0} \cup (32..39)) =>
                  /\ ~made
                  /\ ret.err = "given address not supported by device"
                  /\ bus = <<>>

\* C10 witness: address 0x28 was refused
C10_Witness ==
    /\ call.op = "NewI2C"
    /\ ~call.args[1]
    /\ call.args[2].I2CAddr = 40
    /\ ~made
    /\ ret.err = "given address not supported by device"
    /\ bus = <<>>

----------------------------------------------------------------------------
(* Claims about the display state machine *)

\* C11: SetBacklight, SetDisplayShift and SetShiftRight assign their flag
\* before the first bus write of the call, never after one.
C11_FlagBeforeWrite ==
    call.op \in {"SetBacklight", "SetDisplayShift", "SetShiftRight"} =>
        assignedAfter = 0

\* C12: SetDisplayShift and SetShiftRight each transmit exactly one command
\* byte, 0x04 | (0x02 unless shift-right) | (0x01 if display-shift), from
\* the flags as the call leaves them; construction sends the same formula
\* as its entry-mode command.
C12_EntryModeByte ==
    LET expected == 4 + (IF shiftRight THEN 0 ELSE 2) + (IF displayShift THEN 1 ELSE 0)
    IN  /\ call.op \in {"SetDisplayShift", "SetShiftRight"} =>
              /\ Len(bus) = 6
              /\ AllPulses(bus)
              /\ RSClear(bus)
              /\ LatchedByte(bus, 1) = expected
        /\ call.op = "SetDisplayShift" => displayShift = call.args[1]
        /\ call.op = "SetShiftRight" => shiftRight = call.args[1]
        /\ (call.op = "NewI2C" /\ made) => LatchedByte(bus, 9) = expected

\* C12 witness: SetShiftRight(true) while display shift is on sent 0x05
C12_Witness ==
    /\ call.op = "SetShiftRight"
    /\ call.args = <<TRUE>>
    /\ displayShift
    /\ LatchedByte(bus, 1) = 5

\* C13 as stated: after SetShiftRight(true) the entry-mode byte has
\* OPT_Cursor_Shift (0x01) set and OPT_Increment (0x02) clear.
C13_ShiftBitSet ==
    (call.op = "SetShiftRight" /\ call.args[1]) =>
        /\ Len(bus) = 6
        /\ Bit(LatchedByte(bus, 1), 0) = 1
        /\ Bit(LatchedByte(bus, 1), 1) = 0

\* C13 amended: after SetShiftRight(true) the entry-mode byte has
\* OPT_Increment clear, and OPT_Cursor_Shift set exactly when the
\* display-shift-on-write flag is true.
C13_ShiftBitFollowsFlag ==
    (call.op = "SetShiftRight" /\ call.args[1]) =>
        /\ Len(bus) = 6
        /\ LatchedByte(bus, 1) \div 8 = 0
        /\ Bit(LatchedByte(bus, 1), 2) = 1
        /\ Bit(LatchedByte(bus, 1), 1) = 0
        /\ (Bit(LatchedByte(bus, 1), 0) = 1) <=> displayShift

\* C13 witness: SetShiftRight(true) with display shift off sent 0x04
C13_Witness ==
    /\ call.op = "SetShiftRight"
    /\ call.args = <<TRUE>>
    /\ ~displayShift
    /\ LatchedByte(bus, 1) = 4

\* every write of b has register-select set
RSSet(b) == \A i \in 1..Len(b) : Bit(b[i].val, 0) = 1

\* the call k wrote a single character: WriteChar, or Write of one byte
WroteOne(k) ==
    \/ k.op = "WriteChar"
    \/ k.op = "Write" /\ Len(k.args[1]) = 1

\* the character such a call wrote
CharOf(k) == IF k.op = "WriteChar" THEN k.args[1] ELSE k.args[1][1]

\* C14 as stated: Write of a one-byte buffer and WriteChar each emit
\* exactly two nibble transfers, the high then the low nibble of the
\* character with register-select set, nothing else, and change no flag.
C14_OneCharTwoNibbles ==
    [][ WroteOne(call') =>
              /\ Len(bus') = 6
              /\ AllPulses(bus')
              /\ RSSet(bus')
              /\ LatchedByte(bus', 1) = CharOf(call')
              /\ flags' = flags
      ]_vars

\* C14 amended: Write of a one-byte buffer emits exactly those two nibble
\* transfers; WriteChar emits them and then the cursor-shift-left command
\* 0x10 with register-select clear; neither changes a flag.
C14_OneCharThenShift ==
    [][ WroteOne(call') =>
              /\ Len(bus') = (IF call'.op = "Write" THEN 6 ELSE 12)
              /\ AllPulses(bus')
              /\ RSSet(SubSeq(bus', 1, 6))
              /\ LatchedByte(bus', 1) = CharOf(call')
              /\ call'.op = "WriteChar" =>
                    /\ RSClear(SubSeq(bus', 7, 12))
                    /\ LatchedByte(bus', 3) = 16
              /\ flags' = flags
      ]_vars

\* C14 witness: Write("A") sent the nibbles 4 and 1 with register-select
C14_Witness ==
    /\ call.op = "Write"
    /\ call.args = <<(<<65>>)>>
    /\ Len(bus) = 6
    /\ NibbleOf(bus, 1) = 4
    /\ NibbleOf(bus, 2) = 1
    /\ RSSet(bus)

----------------------------------------------------------------------------
(* The bit packer on its own: pinInterpret applied once, to every pin,    *)
(* byte and value.                                                         *)

Pins == 0..7

PinInterpret(pin, data, value) ==
    /\ made
    /\ UNCHANGED <<made, displayEnable, backlight_state, cursor, blink,
                   displayShift, shiftRight, opts, addr>>
    /\ assignedAfter' = -1
    /\ Returns("pinInterpret", <<pin, data, value>>, 0, <<>>,
               Ret("nil", pinInterpret(pin, data, value)))

InitPin == Constructed(DefaultOpts)

NextPin ==
    /\ call.op = "NewI2C"
    /\ \E pin \in Pins, data \in Byte, value \in BOOLEAN :
          PinInterpret(pin, data, value)

SpecPin == InitPin /\ [][NextPin]_vars

----------------------------------------------------------------------------
(* The address mapper in use: any sequence of SetPosition calls inside    *)
(* the configured bounds, on the supported geometries.                    *)

SupportedLines == 2..4
SupportedCols == 16..20

InitMap ==
    \E l \in SupportedLines, c \in SupportedCols :
        Constructed([I2CAddr |-> 39, Lines |-> l, Cols |-> c])

NextMap ==
    \E line \in 1..opts.Lines, pos \in 0..(opts.Cols - 1), f \in Faults :
        SetPosition(line, pos, f)

SpecMap == InitMap /\ [][NextMap]_vars

----------------------------------------------------------------------------
(* Claims about the bit packer, the one-shot commands and the pulses *)

\* C15: pinInterpret(pin, data, value) gives bit `pin` the value, keeps the
\* seven other bits of data, and applied again to its result returns it.
C15_PinOrthogonalIdempotent ==
    call.op = "pinInterpret" =>
        LET pin == call.args[1]
            data == call.args[2]
            value == call.args[3]
            r == ret.val
        IN  /\ r \in Byte
            /\ (Bit(r, pin) = 1) <=> value
            /\ \A i \in Pins \ {pin} : Bit(r, i) = Bit(data, i)
            /\ pinInterpret(pin, r, value) = r

\* C15 witness: clearing pin 4 of 0xFF gave 0xEF
C15_Witness ==
    /\ call.op = "pinInterpret"
    /\ call.args = <<4, 255, FALSE>>
    /\ ret.val = 239

\* C16: SetBacklight(on) issues exactly one bus write, with EN, RS and
\* D4..D7 clear and the backlight bit equal to on, leaves the backlight
\* flag equal to on and changes no other flag.
C16_BacklightWrite ==
    [][ call'.op = "SetBacklight" =>
            /\ Len(bus') = 1
            /\ Bit(bus'[1].val, 2) = 0
            /\ Bit(bus'[1].val, 0) = 0
            /\ bus'[1].val \div 16 = 0
            /\ (Bit(bus'[1].val, 3) = 1) <=> call'.args[1]
            /\ backlight_state' = call'.args[1]
            /\ <<displayEnable', cursor', blink', displayShift', shiftRight'>>
                   = <<displayEnable, cursor, blink, displayShift, shiftRight>>
      ]_vars

\* C16 witness: SetBacklight(true) wrote the single byte 0x08
C16_Witness ==
    /\ call.op = "SetBacklight"
    /\ call.args = <<TRUE>>
    /\ backlight_state
    /\ Vals(bus) = <<8>>

\* C17: CursorShift(right) and DisplayShift(right) each transmit exactly
\* one command byte, 0x10 or 0x18 plus 0x04 if right, and change no flag,
\* so the entry-mode command the flags give is the same before and after.
C17_ShiftsAreOneShot ==
    [][ call'.op \in {"CursorShift", "DisplayShift"} =>
            /\ Len(bus') = 6
            /\ AllPulses(bus')
            /\ RSClear(bus')
            /\ LatchedByte(bus', 1) =
                  (IF call'.op = "CursorShift" THEN 16 ELSE 24)
                      + (IF call'.args[1] THEN 4 ELSE 0)
            /\ flags' = flags
            /\ entryModeOption(shiftRight', displayShift')
                   = entryModeOption(shiftRight, displayShift)
      ]_vars

\* C17 witness: DisplayShift(true) sent 0x1C while shift-right was set
C17_Witness ==
    /\ call.op = "DisplayShift"
    /\ call.args = <<TRUE>>
    /\ shiftRight
    /\ LatchedByte(bus, 1) = 28

\* the writes of b at which EN falls: EN set in write i, clear in write i+1
FallingEdges(b) ==
    {i \in 1..(Len(b) - 1) : Bit(b[i].val, 2) = 1 /\ Bit(b[i + 1].val, 2) = 0}

Min(S) == CHOOSE x \in S : \A y \in S : x <= y
Max(S) == CHOOSE x \in S : \A y \in S : x >= y

\* C18: for every byte and both modes, D7..D4 at the first falling edge
\* of EN followed by D7..D4 at the second give the byte back, and
\* register-select is set in all six writes for data, clear in all six
\* for a command.
C18_NibbleRoundTrip ==
    call.op = "write" =>
        LET e == FallingEdges(bus)
        IN  /\ Cardinality(e) = 2
            /\ 16 * (bus[Min(e) + 1].val \div 16) + (bus[Max(e) + 1].val \div 16)
                   = call.args[1]
            /\ Len(bus) = 6
            /\ IF call.args[2] THEN RSClear(bus) ELSE RSSet(bus)

\* C18 witness: 0xA5 sent as a command decodes to 0xA5
C18_Witness ==
    /\ call.op = "write"
    /\ call.args = <<165, TRUE>>
    /\ FallingEdges(bus) = {2, 5}
    /\ bus[3].val \div 16 = 10
    /\ bus[6].val \div 16 = 5

\* C19: on a geometry with Lines in 2..4 and Cols in 16..20, two different
\* positions inside the bounds never give the same set-DDRAM-address byte.
C19_AddressInjective ==
    [][ (/\ call.op = "SetPosition"
         /\ call'.op = "SetPosition"
         /\ ret.err = "nil"
         /\ ret'.err = "nil"
         /\ call.args # call'.args) =>
            LatchedByte(bus', 1) # LatchedByte(bus, 1)
      ]_vars

\* C20: a bus write with EN set is always the middle write of a pulse,
\* between two writes of the same byte with EN clear, and the WR bit is
\* clear in every byte written.
C20_EnableOnlyInPulse ==
    /\ \A i \in 1..Len(bus) :
          Bit(bus[i].val, 2) = 1 =>
              /\ i > 1
              /\ i < Len(bus)
              /\ bus[i - 1].val = bus[i].val - 4
              /\ bus[i + 1].val = bus[i].val - 4
    /\ \A i \in 1..Len(bus) : Bit(bus[i].val, 1) = 0
    /\ bus # <<>> => Bit(bus[Len(bus)].val, 2) = 0

\* C20 witness: WriteChar issued four pulses, EN set in each middle write
C20_Witness ==
    /\ call.op = "WriteChar"
    /\ Len(bus) = 12
    /\ \A k \in 0..3 : Bit(bus[3 * k + 2].val, 2) = 1

====
